---- MODULE Spec2Model ----
(***************************************************************************)
(* A model of app.py: the streaming chat generator chat_llama3_8b with its *)
(* background worker thread and the TextIteratorStreamer queue between     *)
(* them, and the mesh-recolouring routine apply_gradient_color.            *)
(*                                                                         *)
(* Text is a sequence of atoms, so that "".join and + are concatenation.   *)
(* One call of chat_llama3_8b is followed from the creation of the         *)
(* generator to its end; calls share no mutable state (model, tokenizer    *)
(* and terminators are only read).                                         *)
(***************************************************************************)
EXTENDS Integers, Sequences, FiniteSets, TLC

VARIABLES
    message,          \* argument: the current user message
    history,          \* argument: the list object of (user, assistant) pairs
    temperature,      \* argument: in tenths (the slider's step is 0.1)
    max_new_tokens,   \* argument
    history_at_call,  \* the content of the history list when the call was made
    pc,               \* where the generator stands
    conversation,     \* local: the list handed to the chat template
    generate_kwargs,  \* local: the dict built for model.generate
    outputs,          \* local: the chunks read from the streamer so far
    yields,           \* the values the generator has yielded, in order
    error_prints,     \* how often line 257 printed "Error during streaming"
    raised,           \* TRUE once an exception left the generator
    optimize_calls,   \* calls of optimize_memory made by this generator
    threads_started,  \* Thread.start() calls made by this generator
    worker,           \* the worker thread running model.generate
    worker_kwargs,    \* the keyword arguments the thread was started with
    queue,            \* streamer.text_queue
    generated,        \* the chunks the worker has put on the streamer, in order
    vertices,         \* apply_gradient_color: mesh.vertices
    colors,           \* apply_gradient_color: the colors array
    color_pc          \* apply_gradient_color: where the handler stands

chat_vars == <<message, history, temperature, max_new_tokens, history_at_call,
               pc, conversation, generate_kwargs, outputs, yields, error_prints,
               raised, optimize_calls, threads_started, worker, worker_kwargs,
               queue, generated>>

color_vars == <<vertices, colors, color_pc>>

vars == <<chat_vars, color_vars>>

----------------------------------------------------------------------------
(* Bounds of the model *)

\* the longest history passed to a call
MaxHistory == 2

\* the largest temperature, in tenths
MaxTemperature == 1

\* the largest max_new_tokens passed to a call
MaxTokens == 2

\* the pieces of text the streamer can hand over; "" is one of them
Chunks == {<<>>, <<"a">>, <<"b">>}

UserTexts == {"u1", "u2"}

AssistantTexts == {"a1"}

Messages == {"m"}

RECURSIVE SeqsUpTo(_, _)
SeqsUpTo(S, n) ==
    IF n = 0 THEN {<<>>}
    ELSE LET shorter == SeqsUpTo(S, n - 1)
         IN shorter \cup {Append(s, x) : s \in {t \in shorter : Len(t) = n - 1}, x \in S}

Histories == SeqsUpTo(UserTexts \X AssistantTexts, MaxHistory)

Temperatures == 0..MaxTemperature

TokenLimits == 1..MaxTokens

----------------------------------------------------------------------------
(* chat_llama3_8b *)

\* terminators, line 140
terminators == <<"eos_token_id", "eot_id">>

\* the literal appended by the except clause, line 258
ErrorText == <<"\n\n[Error during generation. Please try again.]">>

\* "".join(chunks)
RECURSIVE Join(_)
Join(chunks) ==
    IF chunks = <<>> THEN <<>> ELSE Head(chunks) \o Join(Tail(chunks))

\* lines 208-216: the loop over history, then the append of the message
RECURSIVE ExtendConversation(_, _)
ExtendConversation(conv, hist) ==
    IF hist = <<>> THEN conv
    ELSE ExtendConversation(
             conv \o << [role |-> "user", content |-> Head(hist)[1]],
                        [role |-> "assistant", content |-> Head(hist)[2]] >>,
             Tail(hist))

\* a variant that appends the message before the loop over history
BuildConversationMessageFirst(hist, msg) ==
    ExtendConversation(<<[role |-> "user", content |-> msg]>>, hist)

BuildConversation(hist, msg) ==
    Append(ExtendConversation(<<>>, hist), [role |-> "user", content |-> msg])

\* line 219: the tokenizer's output stands for the conversation it encodes
ApplyChatTemplate(conv) == [tokens_of |-> conv]

\* a variant without the override of lines 241-242
GenerateKwargsAlwaysSample(input_ids, temp, max_tokens) ==
    [input_ids |-> input_ids,
     streamer |-> "streamer",
     max_new_tokens |-> max_tokens,
     do_sample |-> TRUE,
     temperature |-> temp,
     eos_token_id |-> terminators]

\* lines 231-242
GenerateKwargs(input_ids, temp, max_tokens) ==
    LET kwargs == [input_ids |-> input_ids,
                   streamer |-> "streamer",
                   max_new_tokens |-> max_tokens,
                   do_sample |-> TRUE,
                   temperature |-> temp,
                   eos_token_id |-> terminators]
    IN IF temp = 0 THEN [kwargs EXCEPT !.do_sample = FALSE] ELSE kwargs

NoKwargs == [input_ids |-> ApplyChatTemplate(<<>>),
             streamer |-> "none",
             max_new_tokens |-> 0,
             do_sample |-> FALSE,
             temperature |-> 0,
             eos_token_id |-> <<>>]

TextItem(chunk) == [stop |-> FALSE, text |-> chunk]

\* TextIteratorStreamer.stop_signal
StopItem == [stop |-> TRUE, text |-> <<>>]

Init ==
    /\ message = "m"
    /\ history = <<>>
    /\ temperature = 0
    /\ max_new_tokens = 1
    /\ history_at_call = <<>>
    /\ pc = "idle"
    /\ conversation = <<>>
    /\ generate_kwargs = NoKwargs
    /\ outputs = <<>>
    /\ yields = <<>>
    /\ error_prints = 0
    /\ raised = FALSE
    /\ optimize_calls = 0
    /\ threads_started = 0
    /\ worker = "unstarted"
    /\ worker_kwargs = NoKwargs
    /\ queue = <<>>
    /\ generated = <<>>
    /\ vertices = <<>>
    /\ colors = <<>>
    /\ color_pc = "idle"

\* the UI calls chat_llama3_8b(message, history, temperature, max_new_tokens):
\* a generator object is created, none of its body has run
Call ==
    /\ pc = "idle"
    /\ \E m \in Messages, h \in Histories, t \in Temperatures, n \in TokenLimits :
          /\ message' = m
          /\ history' = h
          /\ history_at_call' = h
          /\ temperature' = t
          /\ max_new_tokens' = n
    /\ pc' = "created"
    /\ UNCHANGED <<conversation, generate_kwargs, outputs, yields, error_prints,
                   raised, optimize_calls, threads_started, worker, worker_kwargs,
                   queue, generated, color_vars>>

\* first next(): lines 206-216
Conversation ==
    /\ pc = "created"
    /\ conversation' = BuildConversation(history, message)
    /\ pc' = "conversation"
    /\ UNCHANGED <<message, history, temperature, max_new_tokens, history_at_call,
                   generate_kwargs, outputs, yields, error_prints, raised,
                   optimize_calls, threads_started, worker, worker_kwargs, queue,
                   generated, color_vars>>

\* lines 219-242
Kwargs ==
    /\ pc = "conversation"
    /\ generate_kwargs' =
           GenerateKwargs(ApplyChatTemplate(conversation), temperature, max_new_tokens)
    /\ pc' = "kwargs"
    /\ UNCHANGED <<message, history, temperature, max_new_tokens, history_at_call,
                   conversation, outputs, yields, error_prints, raised,
                   optimize_calls, threads_started, worker, worker_kwargs, queue,
                   generated, color_vars>>

\* lines 247-250: Thread(target=model.generate, kwargs=generate_kwargs).start(),
\* outputs = [], and the generator enters the for loop over the streamer
StartThread ==
    /\ pc = "kwargs"
    /\ threads_started' = threads_started + 1
    /\ worker' = "running"
    /\ worker_kwargs' = generate_kwargs
    /\ outputs' = <<>>
    /\ pc' = "reading"
    /\ UNCHANGED <<message, history, temperature, max_new_tokens, history_at_call,
                   conversation, generate_kwargs, yields, error_prints, raised,
                   optimize_calls, queue, generated, color_vars>>

\* a variant that yields the chunk instead of the joined outputs
StreamerTextYieldsChunk ==
    /\ pc = "reading"
    /\ queue # <<>>
    /\ ~Head(queue).stop
    /\ queue' = Tail(queue)
    /\ outputs' = Append(outputs, Head(queue).text)
    /\ yields' = Append(yields, Head(queue).text)
    /\ pc' = "yielded"
    /\ UNCHANGED <<message, history, temperature, max_new_tokens, history_at_call,
                   conversation, generate_kwargs, error_prints, raised,
                   optimize_calls, threads_started, worker, worker_kwargs,
                   generated, color_vars>>

\* TextIteratorStreamer.__next__ got a text from the queue; lines 252-254
StreamerText ==
    /\ pc = "reading"
    /\ queue # <<>>
    /\ ~Head(queue).stop
    /\ queue' = Tail(queue)
    /\ outputs' = Append(outputs, Head(queue).text)
    /\ yields' = Append(yields, Join(outputs'))
    /\ pc' = "yielded"
    /\ UNCHANGED <<message, history, temperature, max_new_tokens, history_at_call,
                   conversation, generate_kwargs, error_prints, raised,
                   optimize_calls, threads_started, worker, worker_kwargs,
                   generated, color_vars>>

\* TextIteratorStreamer.__next__ got the stop signal and raised StopIteration:
\* the for loop of line 252 ends
StreamerStop ==
    /\ pc = "reading"
    /\ queue # <<>>
    /\ Head(queue).stop
    /\ queue' = Tail(queue)
    /\ pc' = "cleanup"
    /\ UNCHANGED <<message, history, temperature, max_new_tokens, history_at_call,
                   conversation, generate_kwargs, outputs, yields, error_prints,
                   raised, optimize_calls, threads_started, worker, worker_kwargs,
                   generated, color_vars>>

\* a variant that yields the error literal alone
ErrorYieldDropsOutputs(outs) == ErrorText

\* line 258: the value the except clause yields
ErrorYield(outs) == Join(outs) \o ErrorText

\* the queue stayed empty for the streamer's timeout (10 s, line 228):
\* queue.Empty is raised in line 252 and caught in lines 256-258
StreamerTimeout ==
    /\ pc = "reading"
    /\ queue = <<>>
    /\ error_prints' = error_prints + 1
    /\ yields' = Append(yields, ErrorYield(outputs))
    /\ pc' = "yielded_error"
    /\ UNCHANGED <<message, history, temperature, max_new_tokens, history_at_call,
                   conversation, generate_kwargs, outputs, raised, optimize_calls,
                   threads_started, worker, worker_kwargs, queue, generated,
                   color_vars>>

\* the consumer calls next() on the generator suspended in line 254
Resume ==
    /\ pc = "yielded"
    /\ pc' = "reading"
    /\ UNCHANGED <<message, history, temperature, max_new_tokens, history_at_call,
                   conversation, generate_kwargs, outputs, yields, error_prints,
                   raised, optimize_calls, threads_started, worker, worker_kwargs,
                   queue, generated, color_vars>>

\* a variant whose except clause returns after its yield
ResumeAfterErrorReturns ==
    /\ pc = "yielded_error"
    /\ pc' = "done"
    /\ UNCHANGED <<message, history, temperature, max_new_tokens, history_at_call,
                   conversation, generate_kwargs, outputs, yields, error_prints,
                   raised, optimize_calls, threads_started, worker, worker_kwargs,
                   queue, generated, color_vars>>

\* the consumer calls next() on the generator suspended in line 258:
\* control leaves the try statement
ResumeAfterError ==
    /\ pc = "yielded_error"
    /\ pc' = "cleanup"
    /\ UNCHANGED <<message, history, temperature, max_new_tokens, history_at_call,
                   conversation, generate_kwargs, outputs, yields, error_prints,
                   raised, optimize_calls, threads_started, worker, worker_kwargs,
                   queue, generated, color_vars>>

\* the consumer drops the generator instead of exhausting it: GeneratorExit is
\* raised at the yield, which "except Exception" does not catch
Close ==
    /\ pc \in {"created", "yielded", "yielded_error"}
    /\ pc' = "closed"
    /\ UNCHANGED <<message, history, temperature, max_new_tokens, history_at_call,
                   conversation, generate_kwargs, outputs, yields, error_prints,
                   raised, optimize_calls, threads_started, worker, worker_kwargs,
                   queue, generated, color_vars>>

\* line 219 runs outside the try statement: an exception of the tokenizer
\* leaves the generator
TemplateRaises ==
    /\ pc = "conversation"
    /\ raised' = TRUE
    /\ pc' = "failed"
    /\ UNCHANGED <<message, history, temperature, max_new_tokens, history_at_call,
                   conversation, generate_kwargs, outputs, yields, error_prints,
                   optimize_calls, threads_started, worker, worker_kwargs, queue,
                   generated, color_vars>>

\* a variant that joins the worker thread before the clean-up
OptimizeMemoryAfterJoin ==
    /\ pc = "cleanup"
    /\ worker \in {"ended", "crashed"}
    /\ optimize_calls' = optimize_calls + 1
    /\ pc' = "done"
    /\ UNCHANGED <<message, history, temperature, max_new_tokens, history_at_call,
                   conversation, generate_kwargs, outputs, yields, error_prints,
                   raised, threads_started, worker, worker_kwargs, queue,
                   generated, color_vars>>

\* line 261, then the generator ends (StopIteration)
OptimizeMemory ==
    /\ pc = "cleanup"
    /\ optimize_calls' = optimize_calls + 1
    /\ pc' = "done"
    /\ UNCHANGED <<message, history, temperature, max_new_tokens, history_at_call,
                   conversation, generate_kwargs, outputs, yields, error_prints,
                   raised, threads_started, worker, worker_kwargs, queue,
                   generated, color_vars>>

----------------------------------------------------------------------------
(* The worker thread, line 247: model.generate called with generate_kwargs *)

\* generate decoded a token and the streamer put a text on the queue; at most
\* max_new_tokens tokens are generated
WorkerPut ==
    /\ worker = "running"
    /\ Len(generated) < worker_kwargs.max_new_tokens
    /\ \E c \in Chunks :
          /\ queue' = Append(queue, TextItem(c))
          /\ generated' = Append(generated, c)
    /\ UNCHANGED <<message, history, temperature, max_new_tokens, history_at_call,
                   pc, conversation, generate_kwargs, outputs, yields,
                   error_prints, raised, optimize_calls, threads_started, worker,
                   worker_kwargs, color_vars>>

\* generate ends and calls streamer.end(), which puts the text still held
\* back (it may be empty) ...
WorkerEndText ==
    /\ worker = "running"
    /\ \E c \in Chunks :
          /\ queue' = Append(queue, TextItem(c))
          /\ generated' = Append(generated, c)
    /\ worker' = "ending"
    /\ UNCHANGED <<message, history, temperature, max_new_tokens, history_at_call,
                   pc, conversation, generate_kwargs, outputs, yields,
                   error_prints, raised, optimize_calls, threads_started,
                   worker_kwargs, color_vars>>

\* ... and then the stop signal; the thread ends
WorkerEndStop ==
    /\ worker = "ending"
    /\ queue' = Append(queue, StopItem)
    /\ worker' = "ended"
    /\ UNCHANGED <<message, history, temperature, max_new_tokens, history_at_call,
                   pc, conversation, generate_kwargs, outputs, yields,
                   error_prints, raised, optimize_calls, threads_started,
                   worker_kwargs, generated, color_vars>>

\* model.generate raises: the thread dies and no stop signal is ever put
WorkerCrash ==
    /\ worker = "running"
    /\ worker' = "crashed"
    /\ UNCHANGED <<message, history, temperature, max_new_tokens, history_at_call,
                   pc, conversation, generate_kwargs, outputs, yields,
                   error_prints, raised, optimize_calls, threads_started,
                   worker_kwargs, queue, generated, color_vars>>

Next ==
    \/ Call
    \/ Conversation
    \/ Kwargs
    \/ TemplateRaises
    \/ StartThread
    \/ StreamerText
    \/ StreamerStop
    \/ StreamerTimeout
    \/ Resume
    \/ ResumeAfterError
    \/ Close
    \/ OptimizeMemory
    \/ WorkerPut
    \/ WorkerEndText
    \/ WorkerEndStop
    \/ WorkerCrash

Spec == Init /\ [][Next]_vars

----------------------------------------------------------------------------
(* apply_gradient_color *)

(* The coordinates and colours are float64 numbers.  A number is a record:  *)
(* a finite one is the fraction n/d with d > 0, and there are the two       *)
(* infinities and NaN.  Rounding is not modelled; overflow is: FloatMax     *)
(* stands for the largest finite float64, and a difference beyond it is an  *)
(* infinity, as numpy computes it.                                          *)

\* the largest finite coordinate
FloatMax == 2

\* the most vertices of a mesh
MaxVertices == 3

Fin(n, d) == [k |-> "fin", n |-> n, d |-> d]

PosInf == [k |-> "inf", n |-> 1, d |-> 1]

NegInf == [k |-> "inf", n |-> -1, d |-> 1]

NaN == [k |-> "nan", n |-> 0, d |-> 1]

\* a - b for two finite floats of integer value
FSub(a, b) ==
    IF a - b > FloatMax THEN PosInf
    ELSE IF a - b < -FloatMax THEN NegInf
    ELSE Fin(a - b, 1)

\* x / y for a non-negative x and a positive y, each the result of FSub
FDiv(x, y) ==
    CASE x.k = "nan" \/ y.k = "nan" -> NaN
      [] x.k = "inf" /\ y.k = "inf" -> NaN
      [] x.k = "fin" /\ y.k = "inf" -> Fin(0, 1)
      [] x.k = "inf" /\ y.k = "fin" -> PosInf
      [] OTHER -> Fin(x.n, y.n)

\* 1 - r
FOneMinus(r) ==
    CASE r.k = "nan" -> NaN
      [] r.k = "inf" -> IF r.n > 0 THEN NegInf ELSE PosInf
      [] OTHER -> Fin(r.d - r.n, r.d)

XValues == {0, 1}

ZValues == {0}

Vertex == XValues \X ((-FloatMax)..FloatMax) \X ZValues

Meshes == SeqsUpTo(Vertex, MaxVertices)

\* vertices[:, 1]
YValues(verts) == [i \in 1..Len(verts) |-> verts[i][2]]

ArrayMin(a) == CHOOSE m \in {a[i] : i \in 1..Len(a)} : \A i \in 1..Len(a) : m <= a[i]

ArrayMax(a) == CHOOSE m \in {a[i] : i \in 1..Len(a)} : \A i \in 1..Len(a) : m >= a[i]

\* lines 161-165
YNormalized(y_values) ==
    IF ArrayMax(y_values) > ArrayMin(y_values)
    THEN [i \in 1..Len(y_values) |->
             FDiv(FSub(y_values[i], ArrayMin(y_values)),
                  FSub(ArrayMax(y_values), ArrayMin(y_values)))]
    ELSE [i \in 1..Len(y_values) |-> Fin(0, 1)]

\* lines 158-170: the rows of colors are (red, green, blue, alpha)
GradientColors(verts) ==
    LET y_normalized == YNormalized(YValues(verts))
    IN [i \in 1..Len(verts) |->
           <<y_normalized[i], Fin(0, 1), FOneMinus(y_normalized[i]), Fin(1, 1)>>]

\* the button's handler, run on the mesh that trimesh loaded from the text;
\* min() of an empty array raises ValueError
ApplyGradientColor ==
    /\ color_pc = "idle"
    /\ \E mesh \in Meshes :
          /\ vertices' = mesh
          /\ IF mesh = <<>>
             THEN colors' = <<>> /\ color_pc' = "raised"
             ELSE colors' = GradientColors(mesh) /\ color_pc' = "done"
    /\ UNCHANGED chat_vars

NextColor == ApplyGradientColor

SpecColor == Init /\ [][NextColor]_vars

----------------------------------------------------------------------------
(* Properties *)

IsPrefix(s, t) == Len(s) <= Len(t) /\ SubSeq(t, 1, Len(s)) = s

Started == pc \in {"reading", "yielded", "yielded_error", "cleanup", "done"}

\* C1: once the read from the streamer has raised (the 10 s timeout), after k
\* chunks were received, the generator has yielded exactly one value more than
\* the k it yielded for the chunks, that value is the k chunks joined followed
\* by the error literal, the generator reads and yields nothing further, and
\* no exception has left it.
ErrorYieldedOnce ==
    error_prints > 0 =>
        /\ error_prints = 1
        /\ ~raised
        /\ pc \in {"yielded_error", "cleanup", "done", "closed"}
        /\ outputs = SubSeq(generated, 1, Len(outputs))
        /\ Len(yields) = Len(outputs) + 1
        /\ yields[Len(yields)] = Join(outputs) \o ErrorText
        /\ \A k \in 1..Len(outputs) : yields[k] = Join(SubSeq(outputs, 1, k))

ErrorAfterTwoChunks ==
    /\ pc = "done"
    /\ error_prints = 1
    /\ Len(outputs) = 2
    /\ yields[3] = <<"a", "b">> \o ErrorText

\* C2: the chunks taken are the first chunks the worker put, in its order;
\* while no error has occurred there is one yield per chunk taken; the k-th
\* yielded value is the first k chunks joined, so each is a prefix of the next;
\* and when the stream has ended without error the last value is the whole
\* generated text.
YieldsArePrefixes ==
    /\ outputs = SubSeq(generated, 1, Len(outputs))
    /\ error_prints = 0 => Len(yields) = Len(outputs)
    /\ \A k \in 1..Len(outputs) : yields[k] = Join(SubSeq(generated, 1, k))
    /\ \A k \in 1..(Len(outputs) - 1) : IsPrefix(yields[k], yields[k + 1])
    /\ (error_prints = 0 /\ pc \in {"cleanup", "done"}) =>
           /\ worker = "ended"
           /\ yields # <<>>
           /\ yields[Len(yields)] = Join(generated)

WholeTextStreamed ==
    /\ pc = "done"
    /\ error_prints = 0
    /\ Len(yields) = 3
    /\ yields[1] = <<"b">>
    /\ yields[3] = <<"b", "a">>

\* C4: the arguments the worker thread was started with have do_sample = FALSE
\* if the temperature is 0 and TRUE otherwise, and carry max_new_tokens, the
\* temperature and the terminators as they were passed.
GreedyIffZeroTemperature ==
    worker # "unstarted" =>
        /\ worker_kwargs.do_sample = (temperature # 0)
        /\ worker_kwargs.max_new_tokens = max_new_tokens
        /\ worker_kwargs.temperature = temperature
        /\ worker_kwargs.eos_token_id = terminators

GreedyWorkerStarted ==
    /\ worker = "running"
    /\ temperature = 0
    /\ worker_kwargs.do_sample = FALSE
    /\ worker_kwargs.max_new_tokens = 2

\* C5: for a history of n pairs the conversation has 2n+1 entries, the i-th
\* pair giving a "user" entry then an "assistant" entry, in history order,
\* the last entry being the message as "user"; it is what the chat template
\* is applied to; and the history list is as it was at the call.
ConversationFromHistory ==
    /\ pc # "idle" => history = history_at_call
    /\ (pc \in {"conversation", "kwargs", "failed"} \/ Started \/ conversation # <<>>) =>
           LET n == Len(history_at_call) IN
           /\ Len(conversation) = 2 * n + 1
           /\ \A i \in 1..n :
                 /\ conversation[2 * i - 1] =
                        [role |-> "user", content |-> history_at_call[i][1]]
                 /\ conversation[2 * i] =
                        [role |-> "assistant", content |-> history_at_call[i][2]]
           /\ conversation[2 * n + 1] = [role |-> "user", content |-> message]
    /\ (pc = "kwargs" \/ Started) =>
           generate_kwargs.input_ids = ApplyChatTemplate(conversation)

TwoPairConversation ==
    /\ pc = "reading"
    /\ Len(history) = 2
    /\ history[1][1] = "u2"
    /\ history[2][1] = "u1"
    /\ Len(conversation) = 5

\* C6: a generator run to exhaustion has called optimize_memory exactly once,
\* on the normal and on the error path alike, and a generator that has not
\* left the streaming loop and the last yield behind has not called it.
CleanUpOnceAtEnd ==
    /\ pc = "done" => optimize_calls = 1
    /\ pc # "done" => optimize_calls = 0

CleanedUpAfterError ==
    /\ pc = "done"
    /\ error_prints = 1
    /\ optimize_calls = 1
    /\ worker = "crashed"
    /\ Len(yields) = 2

\* C7: the call starts at most one worker, and has started exactly one before
\* anything is yielded; the generator never waits for the worker (the clean-up
\* can run whatever the worker does) and never stops it (a running worker can
\* always go on).
WorkerStartedOnceNeverJoined ==
    /\ threads_started <= 1
    /\ (Started \/ yields # <<>>) => threads_started = 1 /\ worker # "unstarted"
    /\ pc \in {"idle", "created", "conversation", "kwargs", "failed"} =>
           threads_started = 0 /\ worker = "unstarted" /\ yields = <<>>
    /\ pc = "cleanup" => ENABLED OptimizeMemory
    /\ worker = "running" => ENABLED WorkerEndText
    /\ worker = "ending" => ENABLED WorkerEndStop

WorkerOutlivesGenerator ==
    /\ pc = "done"
    /\ error_prints = 1
    /\ optimize_calls = 1
    /\ threads_started = 1
    /\ worker = "running"

----------------------------------------------------------------------------
(* Properties of apply_gradient_color *)

FEq(a, b) == a.k = "fin" /\ b.k = "fin" /\ a.n * b.d = b.n * a.d

FLe(a, b) == a.k = "fin" /\ b.k = "fin" /\ a.n * b.d <= b.n * a.d

GradientHolds ==
    LET y == YValues(vertices)
        ymin == ArrayMin(y)
        ymax == ArrayMax(y)
    IN \A i \in 1..Len(vertices) :
          LET red == colors[i][1]
              green == colors[i][2]
              blue == colors[i][3]
              alpha == colors[i][4]
          IN /\ FEq(red, Fin(y[i] - ymin, ymax - ymin))
             /\ FEq(green, Fin(0, 1))
             /\ FEq(alpha, Fin(1, 1))
             /\ FLe(Fin(0, 1), red) /\ FLe(red, Fin(1, 1))
             /\ red.k = "fin" /\ blue.k = "fin"
             /\ red.n * blue.d + blue.n * red.d = red.d * blue.d
             /\ y[i] = ymin => FEq(red, Fin(0, 1)) /\ FEq(blue, Fin(1, 1))
             /\ y[i] = ymax => FEq(red, Fin(1, 1)) /\ FEq(blue, Fin(0, 1))
             /\ \A j \in 1..Len(vertices) :
                   y[i] <= y[j] => FLe(red, colors[j][1])

\* C3: when the mesh has two distinct Y values, every vertex has
\* red = (y - ymin)/(ymax - ymin), blue = 1 - red, green = 0, alpha = 1; red is
\* in [0,1]; the lowest vertices are pure blue and the highest pure red; and
\* red does not decrease with y.
GradientByHeight ==
    (color_pc = "done" /\ ArrayMax(YValues(vertices)) > ArrayMin(YValues(vertices)))
        => GradientHolds

\* the same, for the meshes whose height ymax - ymin is a finite float
GradientByFiniteHeight ==
    (/\ color_pc = "done"
     /\ ArrayMax(YValues(vertices)) > ArrayMin(YValues(vertices))
     /\ ArrayMax(YValues(vertices)) - ArrayMin(YValues(vertices)) <= FloatMax)
        => GradientHolds

====
